---------------------------- MODULE Spec2Model ----------------------------
(***************************************************************************)
(* A model of the torima visual-novel engine (src/torima/main.py and the   *)
(* hit-box part of src/torima/data/renderers.py): the score ledger, the    *)
(* branch evaluators, the navigator and the frame loop of main().          *)
(*                                                                         *)
(* Representation of Python values:                                        *)
(*   str        a TLA+ string (Len, SubSeq and \o work on strings in TLC)  *)
(*   dict       a function whose domain is the set of keys ({} is <<>>)    *)
(*   list       a sequence                                                 *)
(*   None       the string "None" where a str is expected, the record      *)
(*              NoneObj where a dict is expected; no content of the model  *)
(*              uses the string "None" or the key "none"                   *)
(*   int | str  (current_chapter) a record [t |-> "int" | "str", v |-> _]  *)
(* Time is counted in whole clock units; text_speed and dt are integers.   *)
(***************************************************************************)
EXTENDS Integers, Sequences, FiniteSets, TLC

VARIABLES
    game_state,          \* GameState object: scores, current_story,
                         \* current_scene_id, current_chapter, is_in_ending
    running,             \* main(): running
    current_text_len,    \* main(): typewriter reveal count
    text_timer,          \* main(): typewriter timer
    waiting_for_choice,  \* main(): waiting_for_choice
    current_choices,     \* main(): current_choices
    choice_rects,        \* main(): choice_rects
    hover_index,         \* main(): hover_index
    scene,               \* main(): scene, fetched once at the top of a frame
    dt,                  \* main(): dt of the current frame
    event,               \* main(): the event handled last in this frame's
                         \* event loop, NONE before the first
    pc,                  \* position in main(): "frame", "events", "exit", "crashed"
    nav,                 \* the call of navigate_to_scene made by the event
                         \* handled last, NoCall when it made none
    ret                  \* return value of the last direct call (SpecEval)

vars == << game_state, running, current_text_len, text_timer, waiting_for_choice,
           current_choices, choice_rects, hover_index, scene, dt, event, pc,
           nav, ret >>

-----------------------------------------------------------------------------
(* Bounds of the model *)

\* largest absolute value a ledger entry may take in Spec
MaxScore == 6
\* largest ledger value drawn in SpecEval
MaxLedger == 5
\* largest number of conditions of a score_check scene drawn in SpecEval
MaxConds == 2
\* the longest frame time of a typewriter tick, and the cap on the time the
\* ticks on one text add up to
MaxTickDt == 5
MaxElapsed == 12

(* Configuration (game_config.json) *)

\* config["engine_settings"]["text_speed"], in clock units
TextSpeed == 2
\* config["window"]["width"]
ScreenWidth == 1280
\* config["engine_settings"]["debug_mode"]
DebugMode == TRUE
\* config["engine_settings"]["start_chapter"]
StartChapter == [t |-> "int", v |-> 1]
\* config["engine_settings"]["initial_scores"]
InitialScores == [trust |-> 0]

-----------------------------------------------------------------------------
(* Python values *)

None == "None"
NoneObj == [none |-> TRUE]

\* truth value of a str-or-None
Truthy(v) == v # None /\ v # ""
\* truth value of a dict-or-None
TruthyObj(d) == d # NoneObj /\ DOMAIN d # {}

\* dict.get(key, default)
Get(d, key, default) == IF key \in DOMAIN d THEN d[key] ELSE default

\* str.startswith / str.endswith; the tuple form of endswith is any-of
StartsWith(s, p) == Len(s) >= Len(p) /\ SubSeq(s, 1, Len(p)) = p
EndsWith(s, p) == Len(s) >= Len(p) /\ SubSeq(s, Len(s) - Len(p) + 1, Len(s)) = p

Digits == <<"0", "1", "2", "3", "4", "5", "6", "7", "8", "9">>
IsDigit(c) == \E i \in 1..10 : Digits[i] = c
DigitVal(c) == (CHOOSE i \in 1..10 : Digits[i] = c) - 1

\* str(n) of a non-negative int, as an f-string renders it
RECURSIVE IntToStr(_)
IntToStr(n) == IF n < 10 THEN Digits[n + 1]
               ELSE IntToStr(n \div 10) \o Digits[(n % 10) + 1]

\* f"{x}" of an int-or-str value
Format(x) == IF x.t = "int" THEN IntToStr(x.v) ELSE x.v

\* s.split("_")[1]: the text between the first and the second "_"
RECURSIVE UpToUnderscore(_)
UpToUnderscore(s) ==
    IF s = "" \/ SubSeq(s, 1, 1) = "_" THEN ""
    ELSE SubSeq(s, 1, 1) \o UpToUnderscore(SubSeq(s, 2, Len(s)))
RECURSIVE AfterUnderscore(_)
AfterUnderscore(s) ==
    IF s = "" THEN ""
    ELSE IF SubSeq(s, 1, 1) = "_" THEN SubSeq(s, 2, Len(s))
    ELSE AfterUnderscore(SubSeq(s, 2, Len(s)))
SplitSecond(s) == UpToUnderscore(AfterUnderscore(s))

\* int(s) of a digit string; any other string raises ValueError
IsInt(s) == s # "" /\ \A i \in 1..Len(s) : IsDigit(SubSeq(s, i, i))
RECURSIVE ParseInt(_)
ParseInt(s) == IF s = "" THEN 0
               ELSE 10 * ParseInt(SubSeq(s, 1, Len(s) - 1))
                    + DigitVal(SubSeq(s, Len(s), Len(s)))

-----------------------------------------------------------------------------
(* The story content on disk: the files under data/story that the model's  *)
(* playthrough can ask for.  Every scene shape that main() distinguishes   *)
(* occurs: linear, choices, score_check, checkpoint, ending, dead end, a   *)
(* chapter marker, destinations naming a file only, a missing file, a      *)
(* missing scene, and an empty destination.                                *)

\* a story document: the JSON object's keys in file order, and its scenes
Doc(order, scenes) == [order |-> order, scenes |-> scenes]

Chapter1 == Doc(<<"intro", "ask", "gate", "cp", "dead">>,
    [intro |-> [speaker |-> "aya", text |-> "Hi", next_scene |-> "ask"],
     ask |-> [text |-> "Go", choices |-> <<
          [text |-> "flatter", score_change |-> [trust |-> 2], next_scene |-> "intro"],
          [text |-> "boast", score_change |-> [charisma |-> 3],
           next_file |-> "lost", next_scene |-> "start"],
          [text |-> "leave", next_scene |-> "gate"] >>],
     gate |-> [type |-> "score_check", conditions |-> <<
          [requirement |-> [trust |-> 6], next_scene |-> "chapter_9"],
          [requirement |-> [charisma |-> 5], next_file |-> "good.end"],
          [requirement |-> [charisma |-> 2], next_scene |-> "cp"],
          [requirement |-> [trust |-> 4], next_file |-> "gone.end"] >>,
          default_scene |-> "dead"],
     cp |-> [type |-> "checkpoint", text |-> "?", requirements |-> [trust |-> 3],
             pass_scene |-> "chapter_2",
             fail_file |-> "bad.end", fail_scene |-> "start"],
     dead |-> [text |-> "x", choices |-> <<>>]])

Chapter2 == Doc(<<"start", "pick", "void">>,
    [start |-> [speaker |-> "aya", text |-> "Yo!", next_scene |-> "pick"],
     pick |-> [choices |-> <<
          [text |-> "wander", next_scene |-> "nowhere"],
          [text |-> "wait"],
          [text |-> "sleep", next_scene |-> "void"] >>],
     void |-> [text |-> "z", choices |-> <<
          [text |-> "again", next_file |-> "1", next_scene |-> "intro"],
          [text |-> "on", next_scene |-> "chapter_x"],
          [text |-> "skip", next_file |-> "2"] >>]])

GoodEnd == Doc(<<"start", "fin">>,
    [start |-> [text |-> "Win", next_scene |-> "fin"],
     fin |-> [type |-> "ending", ending_name |-> "Good", text |-> "End"]])

BadEnd == Doc(<<"start">>,
    [start |-> [text |-> "B"]])

Files == ("data/story/chapters/1.json" :> Chapter1)
      @@ ("data/story/chapters/2.json" :> Chapter2)
      @@ ("data/story/endings/good.end" :> GoodEnd)
      @@ ("data/story/endings/bad.end" :> BadEnd)

-----------------------------------------------------------------------------
(* Story loading, main.py lines 35-50 *)

load_story_file(filepath) ==
    IF filepath \in DOMAIN Files THEN Files[filepath] ELSE NoneObj

load_chapter(chapter_filename) ==
    load_story_file("data/story/chapters/" \o Format(chapter_filename) \o ".json")

load_ending(ending_filename) ==
    load_story_file("data/story/endings/" \o ending_filename)

\* truth value of a loaded story: None and the empty document are false
TruthyDoc(d) == d # NoneObj /\ d.order # <<>>

\* list(story.keys())[0]
FirstKey(story) == story.order[1]

-----------------------------------------------------------------------------
(* class GameState, main.py lines 52-82 *)

\* GameState.__init__
NewGameState == [scores |-> InitialScores,
                 current_story |-> NoneObj,
                 current_scene_id |-> None,
                 current_chapter |-> StartChapter,
                 is_in_ending |-> FALSE]

\* the loop of update_scores over the items of score_changes
RECURSIVE UpdateScoresLoop(_, _, _)
UpdateScoresLoop(scores, score_changes, todo) ==
    IF todo = {} THEN scores
    ELSE LET stat == CHOOSE s \in todo : TRUE
             value == score_changes[stat]
             next == [k \in DOMAIN scores \cup {stat} |->
                         IF k = stat THEN Get(scores, stat, 0) + value
                         ELSE scores[k]]
         IN UpdateScoresLoop(next, score_changes, todo \ {stat})

update_scores_overwrite(gs, score_changes) ==
    [gs EXCEPT !.scores = [k \in DOMAIN gs.scores \cup DOMAIN score_changes |->
                              IF k \in DOMAIN score_changes THEN score_changes[k]
                              ELSE gs.scores[k]]]

update_scores(gs, score_changes) ==
    [gs EXCEPT !.scores = UpdateScoresLoop(gs.scores, score_changes,
                                           DOMAIN score_changes)]

\* the loop of check_requirements, returning False at the first failing stat
RECURSIVE CheckRequirementsLoop(_, _, _)
CheckRequirementsLoop(scores, requirements, todo) ==
    IF todo = {} THEN TRUE
    ELSE LET stat == CHOOSE s \in todo : TRUE
             needed == requirements[stat]
         IN IF Get(scores, stat, 0) < needed THEN FALSE
            ELSE CheckRequirementsLoop(scores, requirements, todo \ {stat})

check_requirements_strict(gs, requirements) ==
    \A stat \in DOMAIN requirements :
        Get(gs.scores, stat, 0) > requirements[stat]

check_requirements(gs, requirements) ==
    CheckRequirementsLoop(gs.scores, requirements, DOMAIN requirements)

load_story_fresh_scores(gs, story_data, scene_id) ==
    [gs EXCEPT !.current_story = story_data, !.current_scene_id = scene_id,
               !.scores = InitialScores]

load_story(gs, story_data, scene_id) ==
    [gs EXCEPT !.current_story = story_data, !.current_scene_id = scene_id]

get_current_scene(gs) ==
    IF TruthyDoc(gs.current_story) /\ Truthy(gs.current_scene_id)
    THEN Get(gs.current_story.scenes, gs.current_scene_id, NoneObj)
    ELSE NoneObj

-----------------------------------------------------------------------------
(* Branch evaluators, main.py lines 84-118 *)

\* the loop of evaluate_score_check over conditions[i..]
RECURSIVE ScoreCheckLoop(_, _, _, _)
ScoreCheckLoop(gs, sc, conditions, i) ==
    IF i > Len(conditions)
    THEN [next_file |-> Get(sc, "default_file", None),
          next_scene |-> Get(sc, "default_scene", "start")]
    ELSE LET condition == conditions[i]
             requirement == Get(condition, "requirement", <<>>)
         IN IF check_requirements(gs, requirement)
            THEN [next_file |-> Get(condition, "next_file", None),
                  next_scene |-> Get(condition, "next_scene", "start")]
            ELSE ScoreCheckLoop(gs, sc, conditions, i + 1)

evaluate_score_check_last(gs, sc) ==
    LET conditions == Get(sc, "conditions", <<>>)
        ok == {i \in 1..Len(conditions) :
                  check_requirements(gs, Get(conditions[i], "requirement", <<>>))}
    IN IF ok = {}
       THEN [next_file |-> Get(sc, "default_file", None),
             next_scene |-> Get(sc, "default_scene", "start")]
       ELSE LET i == CHOOSE k \in ok : \A j \in ok : j <= k
            IN [next_file |-> Get(conditions[i], "next_file", None),
                next_scene |-> Get(conditions[i], "next_scene", "start")]

evaluate_score_check(gs, sc) ==
    ScoreCheckLoop(gs, sc, Get(sc, "conditions", <<>>), 1)

evaluate_checkpoint_swapped(gs, sc) ==
    IF check_requirements(gs, Get(sc, "requirements", <<>>))
    THEN [next_file |-> Get(sc, "fail_file", None),
          next_scene |-> Get(sc, "fail_scene", "start")]
    ELSE [next_file |-> Get(sc, "pass_file", None),
          next_scene |-> Get(sc, "pass_scene", "start")]

evaluate_checkpoint(gs, sc) ==
    LET requirements == Get(sc, "requirements", <<>>)
    IN IF check_requirements(gs, requirements)
       THEN [next_file |-> Get(sc, "pass_file", None),
             next_scene |-> Get(sc, "pass_scene", "start")]
       ELSE [next_file |-> Get(sc, "fail_file", None),
             next_scene |-> Get(sc, "fail_scene", "start")]

-----------------------------------------------------------------------------
(* navigate_to_scene, main.py lines 120-155 *)

\* int(next_scene.split("_")[1]) raises ValueError on a chapter marker whose
\* number is not a digit string
NavigateRaises(destination) ==
    LET next_file == Get(destination, "next_file", None)
        next_scene == Get(destination, "next_scene", None)
    IN /\ ~Truthy(next_file)
       /\ Truthy(next_scene)
       /\ StartsWith(next_scene, "chapter_")
       /\ ~IsInt(SplitSecond(next_scene))

navigate_file_reset_scores(gs, next_file, next_scene) ==
    LET new_story == IF EndsWith(next_file, ".end") THEN load_ending(next_file)
                     ELSE load_chapter([t |-> "str", v |-> next_file])
    IN IF TruthyDoc(new_story)
       THEN load_story([gs EXCEPT !.is_in_ending = EndsWith(next_file, ".end")],
                       new_story, next_scene)
       ELSE [gs EXCEPT !.scores = InitialScores]

\* lines 126-139: the destination names a file
navigate_file(gs, next_file, next_scene) ==
    IF EndsWith(next_file, ".end")
    THEN LET new_story == load_ending(next_file)
             gs1 == [gs EXCEPT !.is_in_ending = TRUE]
         IN IF TruthyDoc(new_story)
            THEN load_story(gs1, new_story, next_scene)
            ELSE gs1                      \* "Failed to load"
    ELSE LET new_story == load_chapter([t |-> "str", v |-> next_file])
             gs1 == [gs EXCEPT !.current_chapter = [t |-> "str", v |-> next_file],
                               !.is_in_ending = FALSE]
         IN IF TruthyDoc(new_story)
            THEN load_story(gs1, new_story, next_scene)
            ELSE gs1                      \* "Failed to load"

\* lines 144-152: next_scene is a chapter marker such as "chapter_2"
navigate_chapter(gs, next_scene) ==
    LET chapter_num == [t |-> "int", v |-> ParseInt(SplitSecond(next_scene))]
        story == load_chapter(chapter_num)
    IN IF TruthyDoc(story)
       THEN [load_story([gs EXCEPT !.current_chapter = chapter_num],
                        story, FirstKey(story))
                EXCEPT !.is_in_ending = FALSE]
       ELSE gs                            \* "Chapter not found!"

navigate_scene_as_chapter(gs, next_scene) ==
    [gs EXCEPT !.current_scene_id = next_scene, !.is_in_ending = FALSE]

\* lines 153-155: a scene change within the current file
navigate_scene(gs, next_scene) ==
    [gs EXCEPT !.current_scene_id = next_scene]

navigate_to_scene(gs, destination) ==
    LET next_file == Get(destination, "next_file", None)
        next_scene == Get(destination, "next_scene", None)
    IN IF Truthy(next_file)
       THEN navigate_file(gs, next_file, next_scene)
       ELSE IF Truthy(next_scene)
       THEN IF StartsWith(next_scene, "chapter_")
            THEN navigate_chapter(gs, next_scene)
            ELSE navigate_scene(gs, next_scene)
       ELSE gs

-----------------------------------------------------------------------------
(* Choice hit boxes, renderers.py lines 33-36 and 318-344 *)

choice_button_width == 880
choice_button_height == 70
choice_button_spacing == 15
choice_button_start_y == 350

\* pygame.Rect(x, y, w, h)
Rect(x, y, w, h) == [x |-> x, y |-> y, w |-> w, h |-> h]

\* Rect.collidepoint: the right and the bottom edge are outside
collidepoint(rect, pos) ==
    /\ rect.x <= pos[1] /\ pos[1] < rect.x + rect.w
    /\ rect.y <= pos[2] /\ pos[2] < rect.y + rect.h

get_choice_rects(num_choices) ==
    LET button_x == (ScreenWidth - choice_button_width) \div 2
    IN [i \in 1..num_choices |->
           Rect(button_x,
                choice_button_start_y
                  + (i - 1) * (choice_button_height + choice_button_spacing),
                choice_button_width, choice_button_height)]

\* the index (from 0) of the first rect holding pos, -1 when there is none:
\* the enumerate / collidepoint / break loops of main.py 231-234 and 242-245
HitIndex(rects, pos) ==
    IF \E i \in 1..Len(rects) : collidepoint(rects[i], pos)
    THEN (CHOOSE i \in 1..Len(rects) :
             /\ collidepoint(rects[i], pos)
             /\ \A j \in 1..(i - 1) : ~collidepoint(rects[j], pos)) - 1
    ELSE -1

-----------------------------------------------------------------------------
(* main(), main.py lines 157-346 *)

\* the mouse positions the input source reports: the middle of each of the
\* three topmost buttons, and a point in the gap under the first button
MousePositions == {<<640, 385>>, <<640, 470>>, <<640, 555>>, <<640, 428>>}
\* the frame times the clock reports: less than one character delay, and two
Dts == {1, 2 * TextSpeed}
Keys == {"K_SPACE", "K_s"}

NoCall == [called |-> FALSE]
Call(destination) == [called |-> TRUE, destination |-> destination]

\* the variables of main() an event handler may assign
Main == [game_state |-> game_state, running |-> running,
         current_text_len |-> current_text_len, text_timer |-> text_timer,
         waiting_for_choice |-> waiting_for_choice,
         current_choices |-> current_choices, choice_rects |-> choice_rects,
         hover_index |-> hover_index, pc |-> pc, nav |-> NoCall]

Assign(m) ==
    /\ game_state' = m.game_state
    /\ running' = m.running
    /\ current_text_len' = m.current_text_len
    /\ text_timer' = m.text_timer
    /\ waiting_for_choice' = m.waiting_for_choice
    /\ current_choices' = m.current_choices
    /\ choice_rects' = m.choice_rects
    /\ hover_index' = m.hover_index
    /\ pc' = m.pc
    /\ nav' = m.nav

\* len(scene.get("text", ""))
TextLen(sc) == Len(Get(sc, "text", ""))

\* a call navigate_to_scene(game_state, destination, config); an exception
\* it raises is not caught anywhere and ends the program
CallNavigate(m, destination) ==
    IF NavigateRaises(destination)
    THEN [m EXCEPT !.nav = Call(destination), !.pc = "crashed"]
    ELSE [m EXCEPT !.nav = Call(destination),
                   !.game_state = navigate_to_scene(m.game_state, destination)]

\* current_text_len = 0; text_timer = 0 after a call that returned
ResetText(m) ==
    IF m.pc = "crashed" THEN m
    ELSE [m EXCEPT !.current_text_len = 0, !.text_timer = 0]

\* lines 226-234
mouse_motion(m, pos) ==
    IF m.waiting_for_choice
    THEN [m EXCEPT !.hover_index = HitIndex(m.choice_rects, pos)]
    ELSE m

choice_click_keep_hover(m, pos) ==
    LET clicked_index == HitIndex(m.choice_rects, pos)
    IN IF clicked_index # -1
       THEN LET selected_choice == m.current_choices[clicked_index + 1]
                m1 == IF "score_change" \in DOMAIN selected_choice
                      THEN [m EXCEPT !.game_state =
                               update_scores(@, selected_choice.score_change)]
                      ELSE m
                m2 == [m1 EXCEPT !.waiting_for_choice = FALSE,
                                 !.current_choices = <<>>,
                                 !.choice_rects = <<>>,
                                 !.current_text_len = 0,
                                 !.text_timer = 0]
            IN CallNavigate(m2, [next_file |-> Get(selected_choice, "next_file", None),
                                 next_scene |-> Get(selected_choice, "next_scene", None)])
       ELSE m

\* lines 238-269: a click while a choice is pending
choice_click(m, pos) ==
    LET clicked_index == HitIndex(m.choice_rects, pos)
    IN IF clicked_index # -1
       THEN LET selected_choice == m.current_choices[clicked_index + 1]
                m1 == IF "score_change" \in DOMAIN selected_choice
                      THEN [m EXCEPT !.game_state =
                               update_scores(@, selected_choice.score_change)]
                      ELSE m
                m2 == [m1 EXCEPT !.waiting_for_choice = FALSE,
                                 !.current_choices = <<>>,
                                 !.choice_rects = <<>>,
                                 !.hover_index = -1,
                                 !.current_text_len = 0,
                                 !.text_timer = 0]
                next_destination ==
                    [next_file |-> Get(selected_choice, "next_file", None),
                     next_scene |-> Get(selected_choice, "next_scene", None)]
            IN CallNavigate(m2, next_destination)
       ELSE m

\* lines 272-306: a click while no choice is pending; sc is the scene
\* fetched at the top of the frame
advance_click(m, sc) ==
    IF m.current_text_len < TextLen(sc)
    THEN [m EXCEPT !.current_text_len = TextLen(sc)]
    ELSE IF "choices" \in DOMAIN sc
    THEN [m EXCEPT !.current_choices = sc.choices,
                   !.choice_rects = get_choice_rects(Len(sc.choices)),
                   !.waiting_for_choice = TRUE]
    ELSE IF Get(sc, "type", None) = "score_check"
    THEN ResetText(CallNavigate(m, evaluate_score_check(m.game_state, sc)))
    ELSE IF Get(sc, "type", None) = "checkpoint"
    THEN ResetText(CallNavigate(m, evaluate_checkpoint(m.game_state, sc)))
    ELSE IF Get(sc, "type", None) = "ending"
    THEN [m EXCEPT !.running = FALSE]
    ELSE IF "next_scene" \in DOMAIN sc
    THEN ResetText(CallNavigate(m, [next_scene |-> sc.next_scene]))
    ELSE [m EXCEPT !.running = FALSE]

mouse_button_down_miss_dismisses(m, sc, pos) ==
    IF m.waiting_for_choice
    THEN IF HitIndex(m.choice_rects, pos) = -1
         THEN [m EXCEPT !.waiting_for_choice = FALSE, !.current_choices = <<>>]
         ELSE choice_click(m, pos)
    ELSE advance_click(m, sc)

\* lines 236-306
mouse_button_down(m, sc, pos) ==
    IF m.waiting_for_choice THEN choice_click(m, pos) ELSE advance_click(m, sc)

\* lines 309-321
key_down(m, key) ==
    IF key = "K_SPACE" /\ DebugMode
    THEN IF m.game_state.current_chapter.t # "int"
         THEN [m EXCEPT !.pc = "crashed"]   \* str + 1 raises TypeError
         ELSE LET next == [t |-> "int", v |-> m.game_state.current_chapter.v + 1]
                  story == load_chapter(next)
              IN IF TruthyDoc(story)
                 THEN [m EXCEPT !.game_state =
                                   load_story([@ EXCEPT !.current_chapter = next],
                                              story, FirstKey(story)),
                                !.current_text_len = 0,
                                !.text_timer = 0]
                 ELSE m
    ELSE m

typewriter_unguarded(m, sc, d) ==
    IF ~m.waiting_for_choice
    THEN IF m.text_timer + d >= TextSpeed
         THEN [m EXCEPT !.current_text_len = @ + 1, !.text_timer = 0]
         ELSE [m EXCEPT !.text_timer = @ + d]
    ELSE m

\* lines 323-328
typewriter(m, sc, d) ==
    IF ~m.waiting_for_choice /\ m.current_text_len < TextLen(sc)
    THEN IF m.text_timer + d >= TextSpeed
         THEN [m EXCEPT !.current_text_len = @ + 1, !.text_timer = 0]
         ELSE [m EXCEPT !.text_timer = @ + d]
    ELSE m

\* every ledger entry is within the model's bound
ScoresInBound(gs) ==
    \A stat \in DOMAIN gs.scores :
        -MaxScore <= gs.scores[stat] /\ gs.scores[stat] <= MaxScore

\* the state on entering the main loop, lines 159-197
Init ==
    /\ game_state = LET story == load_chapter(StartChapter)
                    IN load_story(NewGameState, story, FirstKey(story))
    /\ running = TRUE
    /\ current_text_len = 0
    /\ text_timer = 0
    /\ waiting_for_choice = FALSE
    /\ current_choices = <<>>
    /\ choice_rects = <<>>
    /\ hover_index = -1
    /\ scene = NoneObj
    /\ dt = 0
    /\ event = [type |-> "NONE"]
    /\ pc = "frame"
    /\ nav = NoCall
    /\ ret = [fn |-> "none"]

\* lines 200-219: the top of a frame
FrameStart ==
    /\ pc = "frame" /\ running
    /\ \E d \in Dts : dt' = d
    /\ scene' = get_current_scene(game_state)
    /\ IF TruthyObj(scene')
       THEN pc' = "events" /\ running' = running
       ELSE pc' = "frame" /\ running' = FALSE    \* "No valid scene!"
    /\ UNCHANGED << game_state, current_text_len, text_timer, waiting_for_choice,
                    current_choices, choice_rects, hover_index, event, nav, ret >>

\* lines 223-224
OnQuit ==
    /\ pc = "events"
    /\ Assign([Main EXCEPT !.running = FALSE])
    /\ event' = [type |-> "QUIT"]
    /\ UNCHANGED << scene, dt, ret >>

OnMouseMotion(pos) ==
    /\ pc = "events"
    /\ Assign(mouse_motion(Main, pos))
    /\ event' = [type |-> "MOUSEMOTION", pos |-> pos]
    /\ UNCHANGED << scene, dt, ret >>

OnMouseButtonDown(pos) ==
    /\ pc = "events"
    /\ LET m == mouse_button_down(Main, scene, pos)
       IN ScoresInBound(m.game_state) /\ Assign(m)
    /\ event' = [type |-> "MOUSEBUTTONDOWN", pos |-> pos]
    /\ UNCHANGED << scene, dt, ret >>

OnKeyDown(key) ==
    /\ pc = "events"
    /\ Assign(key_down(Main, key))
    /\ event' = [type |-> "KEYDOWN", key |-> key]
    /\ UNCHANGED << scene, dt, ret >>

\* lines 323-343: the event queue is empty; typewriter update and drawing
Update ==
    /\ pc = "events"
    /\ Assign([typewriter(Main, scene, dt) EXCEPT !.pc = "frame"])
    /\ event' = [type |-> "NONE"]
    /\ UNCHANGED << scene, dt, ret >>

\* lines 345-346: pygame.quit(); sys.exit()
Exit ==
    /\ pc = "frame" /\ ~running
    /\ pc' = "exit"
    /\ UNCHANGED << game_state, running, current_text_len, text_timer,
                    waiting_for_choice, current_choices, choice_rects,
                    hover_index, scene, dt, event, nav, ret >>

Next ==
    \/ FrameStart
    \/ OnQuit
    \/ \E pos \in MousePositions : OnMouseMotion(pos)
    \/ \E pos \in MousePositions : OnMouseButtonDown(pos)
    \/ \E key \in Keys : OnKeyDown(key)
    \/ Update
    \/ Exit

Spec == Init /\ [][Next]_vars

-----------------------------------------------------------------------------
(* Direct calls of the ledger operations and the branch evaluators on      *)
(* drawn inputs: game_state.scores is the ledger, scene the scene passed,  *)
(* ret the call made last with its arguments and its return value.         *)

Stats == {"trust", "charisma"}
LedgerVals == -1..MaxLedger
Ledgers == UNION {[D -> LedgerVals] : D \in SUBSET Stats}

ReqMaps == {<<>>, [charisma |-> 2], [charisma |-> 5], [trust |-> 3],
            [charisma |-> 2, trust |-> 3], [charisma |-> 5, trust |-> 3]}

Deltas == {<<>>, [trust |-> 2], [charisma |-> -1], [trust |-> 1, charisma |-> 3]}

\* the i-th condition of a drawn score_check scene names the i-th destination
DestNames == <<"A", "B", "D", "E">>
CondsAt(i) == {[requirement |-> R, next_scene |-> DestNames[i]] : R \in ReqMaps}
              \cup {[next_file |-> DestNames[i]]}

RECURSIVE CondLists(_)
CondLists(n) == IF n = 0 THEN {<<>>}
                ELSE {Append(cs, c) : cs \in CondLists(n - 1), c \in CondsAt(n)}

ScoreCheckScenes ==
    {[type |-> "score_check", conditions |-> cs, default_scene |-> "C"] :
        cs \in UNION {CondLists(n) : n \in 0..MaxConds}}
    \cup {[type |-> "score_check", default_file |-> "C"]}

CheckpointScenes ==
    {[type |-> "checkpoint", requirements |-> R,
      pass_scene |-> "P", fail_scene |-> "F"] : R \in ReqMaps}
    \cup {[type |-> "checkpoint", pass_file |-> "P", fail_file |-> "F"]}

InitEval ==
    /\ game_state \in {[NewGameState EXCEPT !.scores = L] : L \in Ledgers}
    /\ scene \in ScoreCheckScenes \cup CheckpointScenes
    /\ ret = [fn |-> "none"]
    /\ pc = "eval"
    /\ running = TRUE
    /\ current_text_len = 0
    /\ text_timer = 0
    /\ waiting_for_choice = FALSE
    /\ current_choices = <<>>
    /\ choice_rects = <<>>
    /\ hover_index = -1
    /\ dt = 0
    /\ event = [type |-> "NONE"]
    /\ nav = NoCall

CallEvaluateScoreCheck ==
    /\ pc = "eval" /\ scene.type = "score_check"
    /\ ret' = [fn |-> "evaluate_score_check",
               value |-> evaluate_score_check(game_state, scene)]
    /\ UNCHANGED << game_state, running, current_text_len, text_timer,
                    waiting_for_choice, current_choices, choice_rects,
                    hover_index, scene, dt, event, pc, nav >>

CallEvaluateCheckpoint ==
    /\ pc = "eval" /\ scene.type = "checkpoint"
    /\ ret' = [fn |-> "evaluate_checkpoint",
               value |-> evaluate_checkpoint(game_state, scene)]
    /\ UNCHANGED << game_state, running, current_text_len, text_timer,
                    waiting_for_choice, current_choices, choice_rects,
                    hover_index, scene, dt, event, pc, nav >>

CallCheckRequirements(requirements) ==
    /\ pc = "eval"
    /\ ret' = [fn |-> "check_requirements", requirements |-> requirements,
               before |-> game_state.scores,
               value |-> check_requirements(game_state, requirements)]
    /\ UNCHANGED << game_state, running, current_text_len, text_timer,
                    waiting_for_choice, current_choices, choice_rects,
                    hover_index, scene, dt, event, pc, nav >>

CallUpdateScores(score_changes) ==
    /\ pc = "eval"
    /\ LET gs == update_scores(game_state, score_changes)
       IN /\ \A stat \in DOMAIN gs.scores : gs.scores[stat] \in LedgerVals
          /\ game_state' = gs
    /\ ret' = [fn |-> "update_scores", score_changes |-> score_changes,
               before |-> game_state.scores]
    /\ UNCHANGED << running, current_text_len, text_timer,
                    waiting_for_choice, current_choices, choice_rects,
                    hover_index, scene, dt, event, pc, nav >>

NextEval ==
    \/ CallEvaluateScoreCheck
    \/ CallEvaluateCheckpoint
    \/ \E requirements \in ReqMaps : CallCheckRequirements(requirements)
    \/ \E score_changes \in Deltas : CallUpdateScores(score_changes)

SpecEval == InitEval /\ [][NextEval]_vars

-----------------------------------------------------------------------------
(* The text reveal alone: typewriter updates (lines 323-328) and clicks     *)
(* (lines 272-306) on one scene that has a text and nothing else, no choice *)
(* pending.  ret keeps the time the ticks add up to, whether a click has    *)
(* skipped the reveal, and the timer and elapsed time at that click.        *)

Texts == {"", "a", "ab", "abc", "abcd"}
TickDts == 1..MaxTickDt

InitTick ==
    /\ scene \in {[text |-> T] : T \in Texts}
    /\ game_state = NewGameState
    /\ ret = [fn |-> "tick", elapsed |-> 0, skipped |-> FALSE,
              timer |-> 0, at |-> 0]
    /\ pc = "tick"
    /\ running = TRUE
    /\ current_text_len = 0
    /\ text_timer = 0
    /\ waiting_for_choice = FALSE
    /\ current_choices = <<>>
    /\ choice_rects = <<>>
    /\ hover_index = -1
    /\ dt = 0
    /\ event = [type |-> "NONE"]
    /\ nav = NoCall

\* one pass of lines 323-328 with frame time d
TickCall(d) ==
    /\ pc = "tick" /\ running
    /\ ret.elapsed + d <= MaxElapsed
    /\ dt' = d
    /\ Assign(typewriter(Main, scene, d))
    /\ ret' = [ret EXCEPT !.elapsed = @ + d]
    /\ UNCHANGED << scene, event >>

\* one MOUSEBUTTONDOWN handled by lines 272-306
ClickCall ==
    /\ pc = "tick" /\ running
    /\ Assign(advance_click(Main, scene))
    /\ ret' = IF current_text_len < TextLen(scene)
              THEN [ret EXCEPT !.skipped = TRUE, !.timer = text_timer,
                               !.at = ret.elapsed]
              ELSE ret
    /\ UNCHANGED << scene, dt, event >>

NextTick ==
    \/ \E d \in TickDts : TickCall(d)
    \/ ClickCall

SpecTick == InitTick /\ [][NextTick]_vars

-----------------------------------------------------------------------------
(* Properties *)

\* the file named by a destination is not on disk (or holds no scene)
LoadFails(destination) ==
    LET next_file == Get(destination, "next_file", None)
    IN /\ Truthy(next_file)
       /\ ~TruthyDoc(IF EndsWith(next_file, ".end") THEN load_ending(next_file)
                     ELSE load_chapter([t |-> "str", v |-> next_file]))

\* a requirement map is satisfied by a ledger: every listed stat reaches its
\* threshold, a stat the ledger lacks counting as 0
Satisfies(ledger, requirements) ==
    \A stat \in DOMAIN requirements :
        (IF stat \in DOMAIN ledger THEN ledger[stat] ELSE 0) >= requirements[stat]

\* C1: a navigation whose next_file fails to load leaves the current scene
\* identifier, the story document, current_chapter, is_in_ending and the
\* reveal count as they were before the event that made the call.
C1_FailedLoadKeepsState ==
    [][(nav'.called /\ LoadFails(nav'.destination))
        => /\ game_state'.current_scene_id = game_state.current_scene_id
           /\ game_state'.current_story = game_state.current_story
           /\ game_state'.current_chapter = game_state.current_chapter
           /\ game_state'.is_in_ending = game_state.is_in_ending
           /\ current_text_len' = current_text_len]_vars

\* C2: at the end of every frame the reveal count lies between 0 and the
\* length of the text of the scene game_state points to.
C2_RevealWithinText ==
    (pc = "frame" /\ TruthyObj(get_current_scene(game_state)))
        => /\ 0 <= current_text_len
           /\ current_text_len <= TextLen(get_current_scene(game_state))

\* C3: when the event handled last in a frame is a click that navigated to a
\* new scene, the typewriter update closing that frame leaves the reveal
\* count and the timer at 0.
C3_NoTypewriterOnOldScene ==
    [][(/\ pc = "events" /\ pc' = "frame"
        /\ event.type = "MOUSEBUTTONDOWN" /\ nav.called
        /\ TruthyObj(get_current_scene(game_state))
        /\ get_current_scene(game_state) # scene)
        => (current_text_len' = 0 /\ text_timer' = 0)]_vars

\* C4: after a navigation whose next_file loaded and whose destination has
\* no next_scene, the current scene is the first scene of the loaded
\* document and exists in it.
C4_FileOnlyStartsAtStart ==
    (/\ nav.called
     /\ Truthy(Get(nav.destination, "next_file", None))
     /\ ~LoadFails(nav.destination)
     /\ ~Truthy(Get(nav.destination, "next_scene", None)))
        => /\ game_state.current_scene_id = FirstKey(game_state.current_story)
           /\ TruthyObj(get_current_scene(game_state))

\* the call made by this step has no next_file and a set next_scene
SceneOnlyCall(call) ==
    /\ call.called
    /\ ~Truthy(Get(call.destination, "next_file", None))
    /\ Truthy(Get(call.destination, "next_scene", None))

\* the document and the file identity stay, the scene becomes next_scene
SceneOnlyEffect ==
    /\ game_state'.current_story = game_state.current_story
    /\ game_state'.current_chapter = game_state.current_chapter
    /\ game_state'.is_in_ending = game_state.is_in_ending
    /\ game_state'.current_scene_id = nav'.destination.next_scene

\* C5 as stated: for every next_scene, a navigation without next_file (one
\* that returns) keeps the document and the file identity and sets the
\* scene to next_scene.
C5_AnySceneStaysInFile ==
    [][(SceneOnlyCall(nav') /\ pc' # "crashed") => SceneOnlyEffect]_vars

\* C5 amended: a navigation without next_file whose next_scene does not
\* start with "chapter_" keeps the document and the file identity and sets
\* the scene to next_scene.
C5_PlainSceneStaysInFile ==
    [][(SceneOnlyCall(nav') /\ ~StartsWith(nav'.destination.next_scene, "chapter_"))
        => SceneOnlyEffect]_vars

C5_Witness ==
    /\ SceneOnlyCall(nav)
    /\ ~StartsWith(nav.destination.next_scene, "chapter_")
    /\ game_state.is_in_ending
    /\ game_state.current_scene_id = nav.destination.next_scene

\* the destination a condition of a score_check scene names
ConditionDestination(condition) ==
    [next_file |-> IF "next_file" \in DOMAIN condition
                   THEN condition.next_file ELSE None,
     next_scene |-> IF "next_scene" \in DOMAIN condition
                    THEN condition.next_scene ELSE "start"]

\* the conditions of the drawn scene the ledger satisfies
SatisfiedConditions ==
    LET conditions == IF "conditions" \in DOMAIN scene THEN scene.conditions ELSE <<>>
    IN {i \in 1..Len(conditions) :
           Satisfies(game_state.scores,
                     IF "requirement" \in DOMAIN conditions[i]
                     THEN conditions[i].requirement ELSE <<>>)}

DefaultDestination ==
    [next_file |-> IF "default_file" \in DOMAIN scene THEN scene.default_file ELSE None,
     next_scene |-> IF "default_scene" \in DOMAIN scene
                    THEN scene.default_scene ELSE "start"]

\* C6: evaluate_score_check returns the destination of the first condition,
\* in declared order, that the ledger satisfies, and the default destination
\* exactly when the ledger satisfies none.
C6_ScoreCheckFirstMatch ==
    ret.fn = "evaluate_score_check"
        => /\ (ret.value = DefaultDestination) <=> (SatisfiedConditions = {})
           /\ \A i \in SatisfiedConditions :
                 (\A j \in SatisfiedConditions : i <= j)
                    => ret.value = ConditionDestination(scene.conditions[i])

\* the scene of the example: charisma >= 5 -> A, charisma >= 2 -> B, else C
ExampleScoreCheck ==
    [type |-> "score_check", default_scene |-> "C", conditions |-> <<
        [requirement |-> [charisma |-> 5], next_scene |-> "A"],
        [requirement |-> [charisma |-> 2], next_scene |-> "B"] >>]

C6_Witness ==
    /\ ret.fn = "evaluate_score_check"
    /\ scene = ExampleScoreCheck
    /\ game_state.scores = [charisma |-> 3]
    /\ ret.value = [next_file |-> None, next_scene |-> "B"]

\* C7: evaluate_checkpoint returns the pass destination when the ledger
\* satisfies the scene's requirements and the fail destination otherwise.
C7_CheckpointPassFail ==
    ret.fn = "evaluate_checkpoint"
        => ret.value =
             IF Satisfies(game_state.scores,
                          IF "requirements" \in DOMAIN scene
                          THEN scene.requirements ELSE <<>>)
             THEN [next_file |-> IF "pass_file" \in DOMAIN scene
                                 THEN scene.pass_file ELSE None,
                   next_scene |-> IF "pass_scene" \in DOMAIN scene
                                  THEN scene.pass_scene ELSE "start"]
             ELSE [next_file |-> IF "fail_file" \in DOMAIN scene
                                 THEN scene.fail_file ELSE None,
                   next_scene |-> IF "fail_scene" \in DOMAIN scene
                                  THEN scene.fail_scene ELSE "start"]

C7_Witness ==
    /\ ret.fn = "evaluate_checkpoint"
    /\ "requirements" \in DOMAIN scene /\ scene.requirements = [trust |-> 3]
    /\ game_state.scores = [trust |-> 2]
    /\ ret.value = [next_file |-> None, next_scene |-> "F"]

\* C8: check_requirements is true exactly when every stat of the requirement
\* map has a ledger value, 0 for a stat the ledger lacks, of at least its
\* threshold; it is true for the empty map; the ledger is as it was.
C8_CheckRequirementsIff ==
    ret.fn = "check_requirements"
        => /\ ret.value <=> Satisfies(ret.before, ret.requirements)
           /\ (ret.requirements = <<>>) => ret.value
           /\ game_state.scores = ret.before

C8_Witness ==
    /\ ret.fn = "check_requirements"
    /\ ret.requirements = [charisma |-> 2, trust |-> 3]
    /\ game_state.scores = [trust |-> 3]
    /\ ~ret.value

\* C9: update_scores adds each delta to the ledger value of its stat, 0 for
\* a stat the ledger lacks, and leaves every other stat as it was; twice
\* {trust: 2} from {trust: 0} gives {trust: 4}.
C9_UpdateScoresAdds ==
    /\ ret.fn = "update_scores"
        => /\ DOMAIN game_state.scores = DOMAIN ret.before \cup DOMAIN ret.score_changes
           /\ \A stat \in DOMAIN ret.score_changes :
                 game_state.scores[stat] =
                    (IF stat \in DOMAIN ret.before THEN ret.before[stat] ELSE 0)
                    + ret.score_changes[stat]
           /\ \A stat \in DOMAIN ret.before \ DOMAIN ret.score_changes :
                 game_state.scores[stat] = ret.before[stat]
    /\ update_scores(update_scores([NewGameState EXCEPT !.scores = [trust |-> 0]],
                                   [trust |-> 2]),
                     [trust |-> 2]).scores = [trust |-> 4]

C9_Witness ==
    /\ ret.fn = "update_scores"
    /\ ret.before = [trust |-> 2]
    /\ ret.score_changes = [trust |-> 1, charisma |-> 3]
    /\ game_state.scores = [trust |-> 3, charisma |-> 3]

\* C10: the ledger changes only in a step that handles a click on a pending
\* choice that carries a score_change.
C10_ScoresChangeOnlyOnChoice ==
    [][game_state'.scores # game_state.scores
        => /\ pc = "events" /\ event'.type = "MOUSEBUTTONDOWN"
           /\ waiting_for_choice
           /\ HitIndex(choice_rects, event'.pos) # -1
           /\ "score_change" \in
                 DOMAIN current_choices[HitIndex(choice_rects, event'.pos) + 1]]_vars

C10_Witness ==
    /\ game_state.scores = [trust |-> 4, charisma |-> 3]
    /\ game_state.current_chapter = [t |-> "int", v |-> 2]
    /\ event.type = "KEYDOWN"


\* the ledger after a score delta is added to it, a stat the ledger lacks
\* starting from 0
Applied(ledger, delta) ==
    [stat \in DOMAIN ledger \cup DOMAIN delta |->
        (IF stat \in DOMAIN ledger THEN ledger[stat] ELSE 0)
        + (IF stat \in DOMAIN delta THEN delta[stat] ELSE 0)]

\* this step handles a click while a choice is pending
ClickWhileAwaiting ==
    pc = "events" /\ event'.type = "MOUSEBUTTONDOWN" /\ waiting_for_choice

\* the index, from 1, of the pending choice the click of this step hits, 0
\* when it hits none
ClickedChoice == HitIndex(choice_rects, event'.pos) + 1

\* the ledger a click on the pending choice i leaves
LedgerAfterChoice(i) ==
    IF "score_change" \in DOMAIN current_choices[i]
    THEN Applied(game_state.scores, current_choices[i].score_change)
    ELSE game_state.scores

\* the destination of the pending choice i
ChoiceDestination(i) ==
    [next_file |-> IF "next_file" \in DOMAIN current_choices[i]
                   THEN current_choices[i].next_file ELSE None,
     next_scene |-> IF "next_scene" \in DOMAIN current_choices[i]
                    THEN current_choices[i].next_scene ELSE None]

\* C11: a click on a choice with a score_change whose destination file fails
\* to load leaves the ledger with the delta added, and the step after that
\* click does not change the ledger.
C11_DeltaKeptOnFailedLoad ==
    [][/\ (/\ ClickWhileAwaiting /\ ClickedChoice # 0
           /\ "score_change" \in DOMAIN current_choices[ClickedChoice]
           /\ LoadFails(ChoiceDestination(ClickedChoice)))
          => game_state'.scores =
                Applied(game_state.scores, current_choices[ClickedChoice].score_change)
       /\ (/\ event.type = "MOUSEBUTTONDOWN" /\ nav.called
           /\ LoadFails(nav.destination))
          => game_state'.scores = game_state.scores]_vars

C11_Witness ==
    /\ event.type = "MOUSEBUTTONDOWN" /\ nav.called
    /\ nav.destination = [next_file |-> "lost", next_scene |-> "start"]
    /\ game_state.scores = [trust |-> 2, charisma |-> 3]
    /\ game_state.current_scene_id = "ask"

\* C12: a click that hits a pending choice leaves the ledger with that
\* choice's delta added (unchanged without a score_change), calls the
\* navigation with that choice's destination, and leaves the machine not
\* awaiting a choice, the pending-choice list empty, the hover index -1, the
\* reveal count 0 and the timer 0.
C12_ChoiceClickEffect ==
    [][(ClickWhileAwaiting /\ ClickedChoice # 0)
        => /\ game_state'.scores = LedgerAfterChoice(ClickedChoice)
           /\ nav' = Call(ChoiceDestination(ClickedChoice))
           /\ pc' # "crashed"
                => game_state' =
                     navigate_to_scene(
                        [game_state EXCEPT !.scores = LedgerAfterChoice(ClickedChoice)],
                        ChoiceDestination(ClickedChoice))
           /\ ~waiting_for_choice'
           /\ current_choices' = <<>>
           /\ choice_rects' = <<>>
           /\ hover_index' = -1
           /\ current_text_len' = 0
           /\ text_timer' = 0]_vars

C12_Witness ==
    /\ event = [type |-> "MOUSEBUTTONDOWN", pos |-> <<640, 555>>]
    /\ nav = Call([next_file |-> None, next_scene |-> "void"])
    /\ game_state.current_scene_id = "void"
    /\ ~waiting_for_choice /\ current_choices = <<>> /\ hover_index = -1
    /\ current_text_len = 0 /\ text_timer = 0

\* C13: a click that hits none of the pending choices' rectangles leaves the
\* game state (scene, document, ledger), the pending choices, the hover
\* index and the reveal count as they were, and the machine awaiting.
C13_MissClickNoOp ==
    [][(ClickWhileAwaiting /\ ClickedChoice = 0)
        => /\ game_state' = game_state
           /\ current_choices' = current_choices
           /\ choice_rects' = choice_rects
           /\ hover_index' = hover_index
           /\ current_text_len' = current_text_len
           /\ text_timer' = text_timer
           /\ waiting_for_choice'
           /\ running' = running
           /\ ~nav'.called]_vars

C13_Witness ==
    /\ event = [type |-> "MOUSEBUTTONDOWN", pos |-> <<640, 428>>]
    /\ waiting_for_choice /\ Len(current_choices) = 3
    /\ hover_index = 1
    /\ pc = "events"


\* the scene game_state points to
CurrentScene == get_current_scene(game_state)

\* the reveal of the current scene is complete
RevealComplete == current_text_len >= TextLen(CurrentScene)

\* this step handles a click while no choice is pending and game_state
\* points to a scene
ClickWhileRevealing ==
    /\ pc = "events" /\ event'.type = "MOUSEBUTTONDOWN"
    /\ ~waiting_for_choice
    /\ TruthyObj(CurrentScene)

SceneType(sc) == IF "type" \in DOMAIN sc THEN sc.type ELSE "dialogue"

\* C14: a click while no choice is pending and the reveal of the current
\* scene is incomplete sets the reveal count to the length of that scene's
\* text and leaves the game state and the pending-choice state as they
\* were, without a navigation call.
C14_SkipClickOnlyReveals ==
    [][(ClickWhileRevealing /\ ~RevealComplete)
        => /\ current_text_len' = TextLen(CurrentScene)
           /\ game_state' = game_state
           /\ ~waiting_for_choice'
           /\ current_choices' = current_choices
           /\ running' = running
           /\ ~nav'.called]_vars

\* C15: a click while no choice is pending, with the reveal complete, on a
\* scene that has choices leaves the machine awaiting a choice with that
\* scene's choices pending and the game state as it was; and a step that
\* enters awaiting-choice ends with the reveal of the current scene complete.
C15_ChoicesAfterReveal ==
    [][/\ (ClickWhileRevealing /\ RevealComplete /\ "choices" \in DOMAIN CurrentScene)
          => /\ waiting_for_choice'
             /\ current_choices' = CurrentScene.choices
             /\ game_state' = game_state
       /\ (~waiting_for_choice /\ waiting_for_choice')
          => /\ TruthyObj(get_current_scene(game_state'))
             /\ current_text_len' >= TextLen(get_current_scene(game_state'))]_vars

\* C16: a click with the reveal complete on a scene of type ending without
\* choices sets running to false; and while running is false on an ending
\* scene no event handled in the rest of the frame changes the game state
\* or the choice state.
C16_EndingClickTerminal ==
    [][/\ (/\ ClickWhileRevealing /\ RevealComplete
           /\ SceneType(CurrentScene) = "ending"
           /\ "choices" \notin DOMAIN CurrentScene)
          => ~running'
       /\ (/\ pc = "events" /\ ~running
           /\ TruthyObj(CurrentScene) /\ SceneType(CurrentScene) = "ending")
          => /\ game_state' = game_state
             /\ waiting_for_choice' = waiting_for_choice
             /\ current_choices' = current_choices
             /\ hover_index' = hover_index]_vars

\* C17: a click with the reveal complete on a scene without choices, without
\* next_scene and of a type other than score_check, checkpoint and ending
\* sets running to false, makes no navigation call and leaves the game
\* state, the ledger included, as it was.
C17_MalformedClickTerminal ==
    [][(/\ ClickWhileRevealing /\ RevealComplete
        /\ "choices" \notin DOMAIN CurrentScene
        /\ "next_scene" \notin DOMAIN CurrentScene
        /\ SceneType(CurrentScene) \notin {"score_check", "checkpoint", "ending"})
        => /\ ~running'
           /\ ~nav'.called
           /\ game_state' = game_state]_vars

\* the scene identifier is set and is not a key of the story document
NotFound(gs) ==
    /\ gs.current_story # NoneObj
    /\ Truthy(gs.current_scene_id)
    /\ gs.current_scene_id \notin DOMAIN gs.current_story.scenes

\* C18: once the scene identifier is not a key of the story document it
\* stays so for the rest of the frame, and the top of the next frame sets
\* running to false.
C18_NotFoundTerminal ==
    [][(NotFound(game_state) /\ pc \in {"events", "frame"})
        => /\ NotFound(game_state')
           /\ pc = "frame" => ~running']_vars


\* C19: from reveal count 0, typewriter ticks whose frame times add up to
\* more than the text length times the text speed end with the whole text
\* revealed.
C19_TicksRevealAll ==
    (ret.fn = "tick" /\ ~ret.skipped
     /\ ret.elapsed > TextLen(scene) * TextSpeed)
        => current_text_len = TextLen(scene)

\* C20: once a click has skipped the reveal, the reveal count is the length
\* of the text and the timer is as that click left it, after any ticks and
\* any further click.
C20_SkippedIsAbsorbing ==
    (ret.fn = "tick" /\ ret.skipped)
        => /\ current_text_len = TextLen(scene)
           /\ text_timer = ret.timer

C20_Witness ==
    /\ ret.fn = "tick" /\ ret.skipped
    /\ scene = [text |-> "abc"]
    /\ ret.timer = 1
    /\ ret.elapsed >= ret.at + MaxTickDt + 1
    /\ ~running


\* C21: a step that lowers the reveal count changes the current scene
\* identifier or the story document.
C21_RevealLoweredOnlyOnSceneChange ==
    [][current_text_len' < current_text_len
        => \/ game_state'.current_scene_id # game_state.current_scene_id
           \/ game_state'.current_story # game_state.current_story]_vars

\* the number of per-character delays the time t covers, at most n
DelaysCovered(t, n) == IF t \div TextSpeed < n THEN t \div TextSpeed ELSE n

\* C22: a typewriter tick on an incomplete reveal whose accumulated timer
\* covers k delays, k at most the characters left, adds k to the reveal
\* count and leaves the timer at the accumulated time minus k delays.
C22_TickRevealsPerDelay ==
    [][(/\ pc = "tick" /\ ret'.elapsed > ret.elapsed
        /\ current_text_len < TextLen(scene))
        => LET k == DelaysCovered(text_timer + dt',
                                  TextLen(scene) - current_text_len)
           IN /\ current_text_len' = current_text_len + k
              /\ text_timer' = text_timer + dt' - k * TextSpeed]_vars

\* C23: while a choice is awaited the pending-choice list is the choices
\* list of the scene game_state points to, and otherwise it is empty.
C23_PendingChoicesOfCurrentScene ==
    /\ waiting_for_choice
        => /\ TruthyObj(CurrentScene)
           /\ "choices" \in DOMAIN CurrentScene
           /\ current_choices = CurrentScene.choices
    /\ ~waiting_for_choice => current_choices = <<>>

\* C24: while a choice is awaited the pending-choice list is not empty.
C24_AwaitingHasChoices ==
    waiting_for_choice => current_choices # <<>>

\* the story document is the content of a file of the endings directory
FromEndings(story) ==
    \E path \in DOMAIN Files :
        StartsWith(path, "data/story/endings/") /\ Files[path] = story

\* C25: is_in_ending is true exactly when the story document was loaded from
\* the endings directory, and when it is false current_chapter names the
\* chapter file the story document was loaded from.
C25_FileIdentityMatchesDocument ==
    /\ game_state.is_in_ending <=> FromEndings(game_state.current_story)
    /\ ~game_state.is_in_ending
        => load_chapter(game_state.current_chapter) = game_state.current_story

=============================================================================
